---- MODULE Spec2Model ----
(***************************************************************************)
(* staticjinja: the dependency graph (dep_graph.py), the source classifier *)
(* (sources.py), the reloader (reloader.py) and Site.render                *)
(* (staticjinja.py), as a state machine.                                   *)
(*                                                                         *)
(* Paths are strings; str.startswith, str.split and os.path.relpath are    *)
(* computed character by character.  A dict is a function whose DOMAIN is  *)
(* its key set; a Python set is a set; a list is a sequence.               *)
(***************************************************************************)
EXTENDS Integers, Sequences, FiniteSets, TLC

VARIABLES
    pc,           \* where Site.render(use_reloader=True) is: "constructed", "watching", "failed"
    staticpaths,  \* Sources.staticpaths
    datapaths,    \* Sources.datapaths
    extra_deps,   \* Sources.extra_deps
    parents,      \* Sources.dep_graph.parents
    children,     \* Sources.dep_graph.children
    event,        \* the last call made: the notification or the graph call
    rendered,     \* the render_template invocations of the last call, in order
    copied,       \* the copy invocations of the last call, in order
    error,        \* the exception that escaped the last call, or "none"
    ncalls,       \* number of calls made so far
    trav,         \* the connected_components generator in progress
    classified    \* the five role predicates applied to one path

vars == <<pc, staticpaths, datapaths, extra_deps, parents, children, event,
          rendered, copied, error, ncalls, trav, classified>>

(***************************************************************************)
(* Bounds.                                                                 *)
(***************************************************************************)
\* notifications handled in one watch session
MaxEvents == 2
\* DepGraph.update calls made on one graph
MaxUpdates == 2

(***************************************************************************)
(* Python values.                                                          *)
(***************************************************************************)
None == [none |-> TRUE]
Some(v) == [none |-> FALSE, value |-> v]
IsNone(x) == x.none

\* dict.get(key, default)
Get(d, key, default) == IF key \in DOMAIN d THEN d[key] ELSE default
\* d[key] = value
Put(d, key, value) == [k \in DOMAIN d \cup {key} |-> IF k = key THEN value ELSE d[k]]
EmptyDict == <<>>

\* the elements of a sequence
Range(s) == {s[i] : i \in 1..Len(s)}

\* str.startswith
startswith(s, prefix) ==
    /\ Len(prefix) <= Len(s)
    /\ SubSeq(s, 1, Len(prefix)) = prefix

\* str.split(sep), sep one character
RECURSIVE split(_, _)
split(s, sep) ==
    LET hits == {i \in 1..Len(s) : SubSeq(s, i, i) = sep} IN
    IF hits = {} THEN <<s>>
    ELSE LET i == CHOOSE h \in hits : \A g \in hits : h <= g IN
         <<SubSeq(s, 1, i - 1)>> \o split(SubSeq(s, i + 1, Len(s)), sep)

\* os.path.sep.join(parts)
RECURSIVE join(_)
join(parts) ==
    IF Len(parts) = 0 THEN ""
    ELSE IF Len(parts) = 1 THEN parts[1]
    ELSE parts[1] \o "/" \o join(Tail(parts))

\* os.path.commonprefix of two lists: the length of the common prefix
RECURSIVE commonprefix(_, _)
commonprefix(a, b) ==
    IF Len(a) = 0 \/ Len(b) = 0 \/ a[1] # b[1] THEN 0
    ELSE 1 + commonprefix(Tail(a), Tail(b))

\* os.path.relpath(path, start) on normalized absolute POSIX paths
relpath(path, start) ==
    LET start_list == SelectSeq(split(start, "/"), LAMBDA x : x # "")
        path_list == SelectSeq(split(path, "/"), LAMBDA x : x # "")
        i == commonprefix(start_list, path_list)
        rel_list == [k \in 1..(Len(start_list) - i) |-> ".."]
                        \o SubSeq(path_list, i + 1, Len(path_list))
    IN IF Len(rel_list) = 0 THEN "." ELSE join(rel_list)

(***************************************************************************)
(* The site on disk and its configuration.                                 *)
(***************************************************************************)
\* Site.searchpath, absolute (Sources.make_sources)
searchpath == "/w/t"

\* the regular files under searchpath when the site is first rendered
InitialFiles ==
    {"page.html", "_base.html", "layout.html", "data/info.json",
     "static/logo.png", "static/_mix.css", "static/.keep", "_inc/.swp", ".hidden"}

\* files created under searchpath while the reloader watches
CreatedFiles == {"new.html", "data/new.json"}

\* every name relative to searchpath that the model speaks of
RelNames == InitialFiles \cup CreatedFiles \cup {"ghost.html"}

\* the names of the vertices in the calls made on a DepGraph of its own
GraphNames == {"page.html", "_base.html", "layout.html"}

\* the paths the role predicates are applied to
ClassifyPaths ==
    RelNames \cup {"data/_gen.json", "_inc/base.html", "a/_b/c.html", "a/.b/c.html",
                   "static2/x.css", "dataset.html", "assets/app.js", "../t2/page.html",
                   ".", "static", "sub/static/x.png"}

\* what os.path.isfile answers when a notification is handled
RegularFiles ==
    {searchpath \o "/" \o f : f \in InitialFiles \cup CreatedFiles}
        \cup {"/w/t2/page.html", "/o/page.html"}

\* the paths the notification source reports: the regular files, a directory
\* of the site, a file that is gone when its notification is handled
EventPaths == RegularFiles \cup {"/w/t/data", "/w/t/gone.html"}

EventTypes == {"modified", "created", "deleted"}

\* os.path.isfile
isfile(path) == path \in RegularFiles

(***************************************************************************)
(* Sources: the role predicates.                                           *)
(***************************************************************************)
\* Sources.is_static
is_static(filename) ==
    IF IsNone(staticpaths) THEN FALSE
    ELSE \E i \in 1..Len(staticpaths.value) : startswith(filename, staticpaths.value[i])

\* Sources.is_data
is_data(filename) ==
    IF IsNone(datapaths) THEN FALSE
    ELSE \E i \in 1..Len(datapaths.value) : startswith(filename, datapaths.value[i])

\* Sources.is_partial
is_partial(filename) ==
    \E x \in Range(split(filename, "/")) : startswith(x, "_")

\* Sources.is_ignored
is_ignored(filename) ==
    \E x \in Range(split(filename, "/")) : startswith(x, ".")

\* is_template without its is_data test
is_template_data_untested(filename) ==
    IF is_partial(filename) THEN FALSE
    ELSE IF is_ignored(filename) THEN FALSE
    ELSE IF is_static(filename) THEN FALSE
    ELSE TRUE

\* Sources.is_template
is_template(filename) ==
    IF is_partial(filename) THEN FALSE
    ELSE IF is_ignored(filename) THEN FALSE
    ELSE IF is_static(filename) THEN FALSE
    ELSE IF is_data(filename) THEN FALSE
    ELSE TRUE

\* Sources.is_jinja
is_jinja(filename) == is_partial(filename) \/ is_template(filename)

\* Environment.list_templates(): the files on disk, sorted
list_templates ==
    <<".hidden", "_base.html", "_inc/.swp", "data/info.json", "layout.html",
      "page.html", "static/.keep", "static/_mix.css", "static/logo.png">>

\* Sources.template_names, jinja_names, static_names, data_names
template_names == SelectSeq(list_templates, is_template)
jinja_names == SelectSeq(list_templates, is_jinja)
static_names == SelectSeq(list_templates, is_static)
data_names == SelectSeq(list_templates, is_data)

(***************************************************************************)
(* DepGraph.                                                               *)
(***************************************************************************)
\* from_parents adding only to the children sets that exist
from_parents_lenient(p) ==
    [error |-> "none",
     parents |-> p,
     children |-> [d \in DOMAIN p |-> {filename \in DOMAIN p : d \in p[filename]}]]

\* DepGraph.from_parents: children[d].add(filename) raises KeyError when d is
\* no key of the mapping, and then no graph is returned
from_parents(p) ==
    IF \E filename \in DOMAIN p : \E d \in p[filename] : d \notin DOMAIN p
    THEN [error |-> "KeyError", parents |-> EmptyDict, children |-> EmptyDict]
    ELSE [error |-> "none",
          parents |-> p,
          children |-> [d \in DOMAIN p |-> {filename \in DOMAIN p : d \in p[filename]}]]

\* the lost parents deleted from children with their sets
RemoveChild_with_key(c, ps, filename) == [d \in DOMAIN c \ ps |-> c[d]]

\* self.children[lost_parent].remove(filename) for every lost_parent of ps
RemoveChild(c, ps, filename) ==
    [d \in DOMAIN c |-> IF d \in ps THEN c[d] \ {filename} ELSE c[d]]

\* filename added to the children of every vertex
AddChild_to_all(c, ps, filename) == [d \in DOMAIN c |-> c[d] \cup {filename}]

\* self.children[new_parent].add(filename) for every new_parent of ps
AddChild(c, ps, filename) ==
    [d \in DOMAIN c |-> IF d \in ps THEN c[d] \cup {filename} ELSE c[d]]

\* self.parents[filename] = new_parents
SetParents(p, filename, new_parents) == Put(p, filename, new_parents)

\* DepGraph.update: every way the call can end.  A loop over a set runs in an
\* order the caller does not choose, so when one element of the loop raises
\* KeyError (children[x] of a missing key x, or set.remove of an absent
\* element) any subset of the other elements may already have been done.
update(p, c, filename, new_parents) ==
    LET old_parents == Get(p, filename, {}) IN
    IF new_parents = old_parents
    THEN {[parents |-> p, children |-> c, error |-> "none"]}
    ELSE
    LET lost == old_parents \ new_parents
        lost_ok == {d \in lost : d \in DOMAIN c /\ filename \in c[d]}
        gained == new_parents \ old_parents
        gained_ok == {d \in gained : d \in DOMAIN c}
        c1 == RemoveChild(c, lost, filename)
    IN  IF lost_ok # lost
        THEN {[parents |-> p, children |-> RemoveChild(c, done, filename),
               error |-> "KeyError"] : done \in SUBSET lost_ok}
        ELSE IF gained_ok # gained
        THEN {[parents |-> p, children |-> AddChild(c1, done, filename),
               error |-> "KeyError"] : done \in SUBSET gained_ok}
        ELSE {[parents |-> SetParents(p, filename, new_parents),
               children |-> AddChild(c1, gained, filename),
               error |-> "none"]}

\* no generator
Idle == [status |-> "idle", direction |-> "", start |-> "", seen |-> {},
         stack |-> <<>>, out |-> <<>>]

\* DepGraph.connected_components(direction, start): the call makes a
\* generator; none of its body has run
connected_components(direction, start) ==
    [status |-> "created", direction |-> direction, start |-> start, seen |-> {},
     stack |-> <<>>, out |-> <<>>]

\* the adjacency the generator walks: the dict itself, so that the generator
\* reads the entries the dict has when it reads them
Adjacency(p, c, direction) == IF direction = "descendants" THEN c ELSE p

\* iter(adjacency[v]): a set iterator.  It keeps the set it was made on, the
\* size the set had then, and the elements that lie ahead of its position
iter(adjacency, v) ==
    [on |-> v, used |-> Cardinality(adjacency[v]), ahead |-> adjacency[v]]

\* the generator's body up to its loop, run by the first next(): the
\* direction test, seen, stack
Begin(p, c, g) ==
    IF g.direction \notin {"descendants", "ancestors"}
    THEN [g EXCEPT !.status = "ValueError"]
    ELSE LET adjacency == Adjacency(p, c, g.direction) IN
         IF g.start \notin DOMAIN adjacency
         THEN [g EXCEPT !.status = "KeyError"]
         ELSE [g EXCEPT !.status = "running", !.seen = {g.start},
                        !.stack = <<iter(adjacency, g.start)>>]

\* the StopIteration handler without its stack.pop()
Pop_forgotten(g) == g

\* stack.pop(), and the loop test that follows it
Pop(g) ==
    LET rest == SubSeq(g.stack, 1, Len(g.stack) - 1) IN
    [g EXCEPT !.stack = rest, !.status = IF rest = <<>> THEN "done" ELSE "running"]

\* the loop without its seen.add(child)
MarkSeen_forgotten(seen, child) == seen

\* seen.add(child)
MarkSeen(seen, child) == seen \cup {child}

\* the turn of the loop in which next(children) gives child: a child that is
\* not in seen is yielded, which suspends the generator at the yield
Advance(g, child) ==
    LET n == Len(g.stack)
        taken == [g.stack EXCEPT ![n].ahead = @ \ {child}]
    IN  IF child \notin g.seen
        THEN [g EXCEPT !.stack = taken, !.out = Append(g.out, child),
                       !.status = "suspended"]
        ELSE [g EXCEPT !.stack = taken]

\* the caller resumes the generator suspended at the yield: seen.add(child),
\* then stack.append(iter(adjacency[child])), which raises KeyError when child
\* is no key of the adjacency as it is now
Resume(adjacency, g) ==
    LET child == g.out[Len(g.out)]
        seen == MarkSeen(g.seen, child)
    IN  IF child \in DOMAIN adjacency
        THEN [g EXCEPT !.status = "running", !.seen = seen,
                       !.stack = Append(g.stack, iter(adjacency, child))]
        ELSE [g EXCEPT !.status = "KeyError", !.seen = seen]

\* children = stack[-1]
Top(g) == g.stack[Len(g.stack)]

\* next(children) finds that the set has not the size it had when the
\* iterator was made (RuntimeError: Set changed size during iteration).
\* update changes the sets of children in place and gives parents[filename] a
\* new set, so only an iterator on a set of children sees a change
Changed(c, g, it) ==
    /\ g.direction = "descendants"
    /\ Cardinality(c[it.on]) # it.used

\* one turn of the loop: next(children) raises RuntimeError, raises
\* StopIteration, or gives any of the elements ahead
Turn(c, g) ==
    IF Changed(c, g, Top(g)) THEN {[g EXCEPT !.status = "RuntimeError"]}
    ELSE IF Top(g).ahead = {} THEN {Pop(g)}
    ELSE {Advance(g, child) : child \in Top(g).ahead}

\* the generator runs: the first lines on the first next(), the lines after the
\* yield when it is resumed, or one turn of its loop
Step(p, c, g) ==
    IF g.status = "created" THEN {Begin(p, c, g)}
    ELSE IF g.status = "suspended" THEN {Resume(Adjacency(p, c, g.direction), g)}
    ELSE IF g.status = "running" THEN Turn(c, g)
    ELSE {}

\* what the set iterators of a suspended generator find after children was
\* changed from c to c2: an element removed from a set is no longer ahead, an
\* element added to a set lies in the slot its hash and the history of the
\* set give it, ahead of the iterator's position or behind it
Moved(g, c, c2) ==
    IF g.status # "suspended" \/ g.direction # "descendants" THEN {g}
    ELSE LET gained == {i \in 1..Len(g.stack) :
                            ~(c2[g.stack[i].on] \subseteq c[g.stack[i].on])}
         IN  {[g EXCEPT !.stack =
                  [i \in 1..Len(g.stack) |->
                     [g.stack[i] EXCEPT !.ahead =
                        (@ \cap c2[g.stack[i].on])
                          \cup (IF i \in A
                                THEN c2[g.stack[i].on] \ c[g.stack[i].on]
                                ELSE {})]]]
                : A \in SUBSET gained}

\* every way a generator can run to its end when its caller resumes it until
\* it ends and the graph is not changed meanwhile
RECURSIVE Runs(_, _, _)
Runs(p, c, g) ==
    IF Step(p, c, g) = {} THEN {g}
    ELSE UNION {Runs(p, c, h) : h \in Step(p, c, g)}

\* DepGraph.get_descendants, consumed to its end
get_descendants(p, c, filename) ==
    Runs(p, c, connected_components("descendants", filename))

(***************************************************************************)
(* Sources: the dependency graph of the site.                              *)
(***************************************************************************)
\* Sources.find_jinja_deps: what find_referenced_templates may return for a
\* file that parses ("ghost.html" names a file that is not on disk)
ExtractResults ==
    {{}, {"_base.html"}, {"layout.html"}, {"ghost.html"}}

\* what find_jinja_deps returns for each file when the site is first rendered
InitialSources ==
    LET nothing == [f \in Range(list_templates) |-> {}] IN
    { [nothing EXCEPT !["page.html"] = {"_base.html"}],
      [nothing EXCEPT !["page.html"] = {"layout.html"}, !["layout.html"] = {"_base.html"}],
      [nothing EXCEPT !["page.html"] = {"_base.html", "static/_mix.css"}],
      [nothing EXCEPT !["page.html"] = {"ghost.html"}] }

\* Sources.get_file_dep, with jinja_deps what find_jinja_deps returned
get_file_dep(filename, jinja_deps) ==
    LET extra == IF ~IsNone(extra_deps) /\ DOMAIN extra_deps.value # {}
                 THEN Get(extra_deps.value, filename, {})
                 ELSE {}
    IN jinja_deps \cup extra

\* make_dep_graph seeding the graph and filling in no dependency
make_dep_graph_seed_only(sources) ==
    from_parents([f \in Range(jinja_names) \cup Range(data_names) |-> {}])

\* Sources.make_dep_graph, with sources what find_jinja_deps returns for each file
make_dep_graph(sources) ==
    LET seeded == [f \in Range(jinja_names) \cup Range(data_names) |-> {}]
        p == [f \in DOMAIN seeded |->
                IF f \in Range(jinja_names) THEN get_file_dep(f, sources[f]) ELSE seeded[f]]
    IN from_parents(p)

\* a lazy iterable: the items it gives, then the exception it raises if any
Iterable(items, err) == [items |-> items, error |-> err]

\* Sources.get_dependencies: the iterables it may return
get_dependencies(p, c, filename) ==
    IF is_template(filename) THEN {Iterable(<<filename>>, "none")}
    ELSE IF is_partial(filename) \/ is_data(filename)
    THEN {Iterable(g.out, IF g.status = "done" THEN "none" ELSE g.status)
            : g \in get_descendants(p, c, filename)}
    ELSE IF is_static(filename) THEN {Iterable(<<filename>>, "none")}
    ELSE {Iterable(<<>>, "none")}

\* filter(self.sources.is_template, iterable), lazy
filter_is_template(iterable) ==
    Iterable(SelectSeq(iterable.items, is_template), iterable.error)

(***************************************************************************)
(* Site.                                                                   *)
(***************************************************************************)
\* Site.render_templates: for each name the iterable gives,
\* self._env.get_template(filename) and then render_template on what it
\* returned.  rendered is the render_template invocations.  The loop ends
\* when get_template raises for the name after the first k (k may be 0: no
\* invocation), when the render_template of the k-th name raises, or when the
\* iterable ends or raises
render_templates(filenames) ==
    {[rendered |-> SubSeq(filenames.items, 1, k), error |-> "RenderError"]
        : k \in 0..(Len(filenames.items) - 1)}
    \cup {[rendered |-> SubSeq(filenames.items, 1, k), error |-> "RenderError"]
            : k \in 1..Len(filenames.items)}
    \cup {[rendered |-> filenames.items, error |-> filenames.error]}

\* Site.copy_static: one copy for each file
copy_static(files) == files

(***************************************************************************)
(* Reloader.                                                               *)
(***************************************************************************)
\* should_handle without its os.path.isfile test
should_handle_isfile_untested(event_type, filename) ==
    /\ event_type \in {"modified", "created"}
    /\ startswith(filename, searchpath)

\* Reloader.should_handle
should_handle(event_type, filename) ==
    /\ event_type \in {"modified", "created"}
    /\ startswith(filename, searchpath)
    /\ isfile(filename)

\* the branches without the is_static one
Dispatch_static_untested(filename) ==
    IF is_ignored(filename) THEN "return"
    ELSE "refresh"

\* Reloader.event_handler: the branch taken for an accepted event
Dispatch(filename) ==
    IF is_static(filename) THEN "copy"
    ELSE IF is_ignored(filename) THEN "return"
    ELSE "refresh"

\* Reloader.event_handler: needs_rendering once the graph is updated
needs_rendering(p, c, filename) ==
    IF is_template(filename) THEN {Iterable(<<filename>>, "none")}
    ELSE {filter_is_template(deps) : deps \in get_dependencies(p, c, filename)}

\* the result of a call: the graph, the invocations made, the exception raised
Outcome(p, c, r, cp, err) ==
    [parents |-> p, children |-> c, rendered |-> r, copied |-> cp, error |-> err]

\* Reloader.event_handler: the branch for a (maybe partial) template or a data
\* file, with jinja_deps what find_jinja_deps returned
Refresh(filename, jinja_deps) ==
    UNION {
        IF u.error # "none"
        THEN {Outcome(u.parents, u.children, <<>>, <<>>, u.error)}
        ELSE UNION {
                {Outcome(u.parents, u.children, r.rendered, <<>>, r.error)
                    : r \in render_templates(needs)}
                : needs \in needs_rendering(u.parents, u.children, filename)}
        : u \in update(parents, children, filename, get_file_dep(filename, jinja_deps))}

\* find_jinja_deps raising once update has emptied the parents of filename
ExtractorFails_after_update(p, c, filename) ==
    Outcome(SetParents(p, filename, {}), c, <<>>, <<>>, "TemplateError")

\* Sources.update_dep_graph when find_jinja_deps raises (the template does not
\* load or parse): get_file_dep is the argument of update, so the exception
\* leaves before update is called
ExtractorFails(p, c, filename) == Outcome(p, c, <<>>, <<>>, "TemplateError")

\* the result of a call of event_handler together with what find_jinja_deps
\* returned in it: Some(jinja_deps), or None when it was not called or raised
Extracted(found, o) ==
    [parents |-> o.parents, children |-> o.children, rendered |-> o.rendered,
     copied |-> o.copied, error |-> o.error, found |-> found]

\* Reloader.event_handler: every way the call can end
event_handler(event_type, src_path) ==
    LET filename == relpath(src_path, searchpath) IN
    IF ~should_handle(event_type, src_path)
    THEN {Extracted(None, Outcome(parents, children, <<>>, <<>>, "none"))}
    ELSE IF Dispatch(filename) = "copy"
    THEN {Extracted(None, Outcome(parents, children, <<>>, copy_static(<<filename>>), "none"))}
    ELSE IF Dispatch(filename) = "return"
    THEN {Extracted(None, Outcome(parents, children, <<>>, <<>>, "none"))}
    ELSE UNION {{Extracted(Some(jinja_deps), o) : o \in Refresh(filename, jinja_deps)}
                    : jinja_deps \in ExtractResults}
         \cup {Extracted(None, ExtractorFails(parents, children, filename))}

(***************************************************************************)
(* The state machine.                                                      *)
(***************************************************************************)
\* a call and its arguments
Call(op, type, path, arg) == [op |-> op, type |-> type, path |-> path, arg |-> arg]
NoCall == Call("none", "", "", {})

Unclassified ==
    [path |-> "", is_partial |-> FALSE, is_ignored |-> FALSE, is_static |-> FALSE,
     is_data |-> FALSE, is_template |-> FALSE]

\* the configurations of make_site(staticpaths=..., datapaths=...)
StaticConfigs ==
    {None, Some(<<>>), Some(<<"static">>), Some(<<"static", "data">>),
     Some(<<"assets", "static">>)}
DataConfigs ==
    {None, Some(<<"data">>), Some(<<"static", "data">>), Some(<<"data/info.json">>)}

\* the site of the model: make_site(staticpaths=["static"], datapaths=["data"],
\* extra_deps={"page.html": ["data/info.json"]})
SiteStatic == Some(<<"static">>)
SiteData == Some(<<"data">>)
SiteExtraDeps == Some([f \in {"page.html"} |-> {"data/info.json"}])

\* Site.__init__, Sources.__init__: the objects are made, no graph is built
Constructed ==
    /\ pc = "constructed"
    /\ parents = EmptyDict
    /\ children = EmptyDict
    /\ event = NoCall
    /\ rendered = <<>>
    /\ copied = <<>>
    /\ error = "none"
    /\ ncalls = 0
    /\ trav = Idle
    /\ classified = Unclassified

Init ==
    /\ Constructed
    /\ staticpaths = SiteStatic
    /\ datapaths = SiteData
    /\ extra_deps = SiteExtraDeps

\* Site.render(use_reloader=True) up to Reloader(self).watch()
SiteRender ==
    /\ pc = "constructed"
    /\ \E sources \in InitialSources :
       \E r \in render_templates(Iterable(template_names, "none")) :
         LET g == make_dep_graph(sources) IN
         /\ rendered' = r.rendered
         /\ event' = Call("render", "", "", {})
         /\ IF r.error # "none"
            THEN /\ error' = r.error
                 /\ pc' = "failed"
                 /\ UNCHANGED <<parents, children, copied>>
            ELSE /\ copied' = copy_static(static_names)
                 /\ error' = g.error
                 /\ pc' = IF g.error = "none" THEN "watching" ELSE "failed"
                 /\ parents' = g.parents
                 /\ children' = g.children
    /\ UNCHANGED <<staticpaths, datapaths, extra_deps, ncalls, trav, classified>>

\* easywatch calls Reloader.event_handler(event_type, src_path)
EventHandler ==
    /\ pc = "watching"
    /\ ncalls < MaxEvents
    /\ \E event_type \in EventTypes, src_path \in EventPaths :
       \E o \in event_handler(event_type, src_path) :
         /\ event' = Call("event", event_type, src_path, o.found)
         /\ parents' = o.parents
         /\ children' = o.children
         /\ rendered' = o.rendered
         /\ copied' = o.copied
         /\ error' = o.error
    /\ ncalls' = ncalls + 1
    /\ UNCHANGED <<pc, staticpaths, datapaths, extra_deps, trav, classified>>

Next == SiteRender \/ EventHandler

Spec == Init /\ [][Next]_vars

(***************************************************************************)
(* A DepGraph of its own: from_parents, then update and traversal calls.   *)
(***************************************************************************)
\* the mappings handed to DepGraph.from_parents
GraphInputs == UNION {[keys -> SUBSET GraphNames] : keys \in SUBSET GraphNames}

Directions == {"descendants", "ancestors", "siblings"}

\* the code of the generator is running: its caller waits for next() to return
Executing == trav.status = "running"

\* there is no generator to resume: none was made, or the last one has ended
\* or was closed
Quiet == trav.status \notin {"created", "suspended", "running"}

\* DepGraph.from_parents(p)
FromParentsCall ==
    /\ pc = "constructed"
    /\ \E p \in GraphInputs :
         LET g == from_parents(p) IN
         /\ event' = Call("from_parents", "", "", p)
         /\ parents' = g.parents
         /\ children' = g.children
         /\ error' = g.error
         /\ pc' = IF g.error = "none" THEN "built" ELSE "failed"
    /\ UNCHANGED <<staticpaths, datapaths, extra_deps, rendered, copied, ncalls,
                   trav, classified>>

\* DepGraph.update(filename, new_parents), which the holder of the graph may
\* call whenever it has control: also before the first next() of a generator
\* and between two next() of it.  A generator that has ended is dropped
UpdateCall ==
    /\ pc = "built"
    /\ ~Executing
    /\ ncalls < MaxUpdates
    /\ \E filename \in GraphNames, new_parents \in SUBSET GraphNames :
       \E u \in update(parents, children, filename, new_parents) :
         /\ event' = Call("update", "", filename, new_parents)
         /\ parents' = u.parents
         /\ children' = u.children
         /\ error' = u.error
         /\ trav' \in IF Quiet THEN {Idle} ELSE Moved(trav, children, u.children)
    /\ ncalls' = ncalls + 1
    /\ UNCHANGED <<pc, staticpaths, datapaths, extra_deps, rendered, copied, classified>>

\* DepGraph.connected_components(direction, start): a generator is made,
\* whatever became of the one made before, which may not have begun or may be
\* suspended at its yield.  Generators only read the graph and know nothing of
\* one another; the model follows the generator made last
ConnectedComponentsCall ==
    /\ pc = "built"
    /\ ~Executing
    /\ \E direction \in Directions, start \in GraphNames :
         trav' = connected_components(direction, start)
    /\ event' = Call("connected_components", "", "", {})
    /\ error' = "none"
    /\ UNCHANGED <<pc, staticpaths, datapaths, extra_deps, parents, children, rendered,
                   copied, ncalls, classified>>

\* next(generator): the generator runs from where it is (not begun, or
\* suspended at its yield) to its next yield, its end or an exception, one
\* step of the model for its first lines, for the lines after the yield and
\* for each turn of its loop
GeneratorStep ==
    /\ ~Quiet
    /\ \E g \in Step(parents, children, trav) : trav' = g
    /\ event' = Call("next", "", "", {})
    /\ error' = IF trav'.status \in {"KeyError", "ValueError", "RuntimeError"}
                THEN trav'.status ELSE "none"
    /\ UNCHANGED <<pc, staticpaths, datapaths, extra_deps, parents, children,
                   rendered, copied, ncalls, classified>>

\* A generator that is not resumed to its end is closed, by close() or when it
\* is collected: the loop of Site.render_templates is left by an exception of
\* its body and leaves its generator suspended.  GeneratorExit is raised at
\* the yield, which the handler of StopIteration does not catch, and no line
\* of the body runs; a generator that has not begun is closed without running
GeneratorClose ==
    /\ trav.status \in {"created", "suspended"}
    /\ trav' = [trav EXCEPT !.status = "closed"]
    /\ event' = Call("close", "", "", {})
    /\ error' = "none"
    /\ UNCHANGED <<pc, staticpaths, datapaths, extra_deps, parents, children,
                   rendered, copied, ncalls, classified>>

NextGraph ==
    \/ FromParentsCall
    \/ UpdateCall
    \/ ConnectedComponentsCall
    \/ GeneratorStep
    \/ GeneratorClose

SpecGraph == Init /\ [][NextGraph]_vars

\* from_parents and update calls on a graph of which no generator is made
NextUpdate == FromParentsCall \/ UpdateCall

SpecUpdate == Init /\ [][NextUpdate]_vars

\* Traversals of the graphs from_parents builds, which are not changed.  The
\* holder of a generator resumes it, leaves it where it is, closes it or makes
\* another one, as it likes
NextTraversal ==
    \/ FromParentsCall
    \/ ConnectedComponentsCall
    \/ GeneratorStep
    \/ GeneratorClose

\* the interpreter runs the code of a generator that was resumed until it
\* yields, ends or raises; nothing makes its holder resume it
SpecTraversal ==
    Init /\ [][NextTraversal]_vars /\ WF_vars(Executing /\ GeneratorStep)

(***************************************************************************)
(* Sources.get_dependencies on the graphs make_dep_graph builds.           *)
(***************************************************************************)
\* what find_jinja_deps returns for each file: page.html extends nothing,
\* _base.html or layout.html, _base.html may include static/_mix.css and
\* data/info.json, layout.html may extend _base.html
DepSources ==
    LET nothing == [f \in Range(list_templates) |-> {}] IN
    {[nothing EXCEPT !["page.html"] = a, !["_base.html"] = b, !["layout.html"] = c]
        : a \in {{}, {"_base.html"}, {"layout.html"}},
          b \in {{}, {"static/_mix.css", "data/info.json"}},
          c \in {{}, {"_base.html"}}}

\* the paths get_dependencies is asked about
DepPaths == InitialFiles \cup CreatedFiles

\* an iterable consumed to its end: what it gave and how it ended
Consumed(filename, iterable) ==
    [status |-> IF iterable.error = "none" THEN "done" ELSE iterable.error,
     direction |-> "descendants", start |-> filename, seen |-> {}, stack |-> <<>>,
     out |-> iterable.items]

\* Sources.make_dep_graph()
MakeDepGraphCall ==
    /\ pc = "constructed"
    /\ \E sources \in DepSources :
         LET g == make_dep_graph(sources) IN
         /\ parents' = g.parents
         /\ children' = g.children
         /\ error' = g.error
         /\ pc' = IF g.error = "none" THEN "ready" ELSE "failed"
    /\ event' = Call("make_dep_graph", "", "", {})
    /\ UNCHANGED <<staticpaths, datapaths, extra_deps, rendered, copied, ncalls,
                   trav, classified>>

\* list(Sources.get_dependencies(filename))
GetDependenciesCall ==
    /\ pc = "ready"
    /\ \E filename \in DepPaths :
       \E iterable \in get_dependencies(parents, children, filename) :
         /\ event' = Call("get_dependencies", "", filename, {})
         /\ trav' = Consumed(filename, iterable)
         /\ error' = iterable.error
    /\ UNCHANGED <<pc, staticpaths, datapaths, extra_deps, parents, children, rendered,
                   copied, ncalls, classified>>

NextDeps == MakeDepGraphCall \/ GetDependenciesCall

SpecDeps == Init /\ [][NextDeps]_vars

(***************************************************************************)
(* The role predicates on their own.                                       *)
(***************************************************************************)
InitClassify ==
    /\ Constructed
    /\ staticpaths \in StaticConfigs
    /\ datapaths \in DataConfigs
    /\ extra_deps = None

\* the five role predicates applied to one path
Classify ==
    /\ \E path \in ClassifyPaths :
         classified' = [path |-> path,
                        is_partial |-> is_partial(path),
                        is_ignored |-> is_ignored(path),
                        is_static |-> is_static(path),
                        is_data |-> is_data(path),
                        is_template |-> is_template(path)]
    /\ UNCHANGED <<pc, staticpaths, datapaths, extra_deps, parents, children, event,
                   rendered, copied, error, ncalls, trav>>

NextClassify == Classify

SpecClassify == InitClassify /\ [][NextClassify]_vars

(***************************************************************************)
(* Properties.                                                             *)
(***************************************************************************)
\* every vertex the graph names, as a key or inside an edge set
Vertices ==
    DOMAIN parents \cup DOMAIN children
        \cup UNION {parents[v] : v \in DOMAIN parents}
        \cup UNION {children[v] : v \in DOMAIN children}

\* I1: u is in parents[v] exactly when v is in children[u]
I1 ==
    \A u \in Vertices, v \in Vertices :
        (v \in DOMAIN parents /\ u \in parents[v])
            <=> (u \in DOMAIN children /\ v \in children[u])

\* I2: parents and children have the same keys, and every vertex inside an
\* edge set is a key
I2 ==
    /\ DOMAIN parents = DOMAIN children
    /\ \A v \in DOMAIN parents : parents[v] \subseteq DOMAIN parents
    /\ \A v \in DOMAIN children : children[v] \subseteq DOMAIN children

\* C1: after from_parents and any update calls, those that raise included,
\* u is in parents[v] if and only if v is in children[u].
C1_InverseConsistency == pc = "built" => I1

\* C2: after from_parents and any update calls, parents and children have the
\* same key set and every vertex inside an edge set is a key of both.
C2_ClosedVertexSet == pc = "built" => I2

\* the role of a path under the precedence partial > ignored > static > data > template
RoleOf(path) ==
    IF is_partial(path) THEN "partial"
    ELSE IF is_ignored(path) THEN "ignored"
    ELSE IF is_static(path) THEN "static"
    ELSE IF is_data(path) THEN "data"
    ELSE "template"

\* how many of the five role predicates hold of the classified path
RolesHeld ==
    Cardinality({r \in {"is_partial", "is_ignored", "is_static", "is_data", "is_template"}
                    : classified[r]})

\* C7, as claimed: exactly one of is_partial, is_ignored, is_static, is_data,
\* is_template holds of every path under every configuration.
C7_ExactlyOneRole == classified.path # "" => RolesHeld = 1

\* C7, amended: at least one of the five predicates holds, and is_template
\* holds exactly when none of the other four does; a path that is partial and
\* under a data prefix is not a template (it is both partial and data).
C7_TemplateIsTheFallback ==
    classified.path # "" =>
        /\ RolesHeld >= 1
        /\ classified.is_template <=>
             ~(classified.is_partial \/ classified.is_ignored
                 \/ classified.is_static \/ classified.is_data)
        /\ (is_partial(classified.path) /\ is_data(classified.path))
             => (classified.is_partial /\ classified.is_data /\ ~classified.is_template)

\* C7 witness: a partial under the data prefix has been classified
C7_Witness ==
    /\ classified.path = "data/_gen.json"
    /\ datapaths = Some(<<"data">>)
    /\ classified.is_partial
    /\ classified.is_data
    /\ ~classified.is_template

\* the vertices reachable from those of S by zero or more edges of adj
RECURSIVE Closure(_, _)
Closure(adj, S) ==
    LET more == S \cup UNION {Get(adj, v, {}) : v \in S} IN
    IF more = S THEN S ELSE Closure(adj, more)

\* the vertices reachable from start by one or more edges of adj
Reachable(adj, start) == Closure(adj, Get(adj, start, {}))

NoDuplicates(s) == \A i, j \in 1..Len(s) : s[i] = s[j] => i = j

\* C8: on a graph satisfying I1 and I2, cycles and self-loops included,
\* get_descendants(start) raises nothing, never yields a vertex twice, yields
\* only vertices reachable from start by one or more children edges other than
\* start, and has yielded all of them when it ends (stated of the generators
\* whose graph is not changed while they run).
C8_DescendantsExact ==
    (/\ pc = "built"
     /\ trav.status \in {"running", "suspended", "done", "closed", "KeyError",
                         "RuntimeError"}
     /\ trav.direction = "descendants"
     /\ trav.start \in DOMAIN children
     /\ I1 /\ I2)
    => /\ trav.status \notin {"KeyError", "RuntimeError"}
       /\ NoDuplicates(trav.out)
       /\ Range(trav.out) \subseteq Reachable(children, trav.start) \ {trav.start}
       /\ trav.status = "done"
            => Range(trav.out) = Reachable(children, trav.start) \ {trav.start}

\* C8 witness: on the two-cycle page.html <-> _base.html, descendants(page.html)
\* has ended and is [_base.html]
C8_Witness ==
    /\ pc = "built"
    /\ DOMAIN parents = {"page.html", "_base.html"}
    /\ I1 /\ I2
    /\ parents["page.html"] = {"_base.html"}
    /\ parents["_base.html"] = {"page.html"}
    /\ trav.status = "done"
    /\ trav.direction = "descendants"
    /\ trav.start = "page.html"
    /\ trav.out = <<"_base.html">>

\* the vertices get_descendants(a) has yielded when it ends without an
\* exception, however the sets are iterated: those every run yields
Yielded(a) ==
    {x \in Vertices :
        \A g \in get_descendants(parents, children, a) :
            g.status = "done" /\ x \in Range(g.out)}

\* C9: in any graph reached by from_parents and update calls, for all a, b, c,
\* if a is in parents[b] then b is in descendants(a), and if moreover b is in
\* parents[c] then c is in descendants(a) (stated of b and c other than a:
\* descendants(a) never holds a itself).
C9_DescendantClosure ==
    (pc = "built" /\ trav = Idle) =>
        \A a \in Vertices :
            LET desc == Yielded(a) IN
            \A b \in DOMAIN parents :
                (a \in parents[b] /\ b # a) =>
                    /\ b \in desc
                    /\ \A c \in DOMAIN parents : (b \in parents[c] /\ c # a) => c \in desc

\* the generator has ended or was closed, or there is none
Ended == trav.status \in {"idle", "done", "closed", "KeyError", "ValueError",
                          "RuntimeError"}

\* C10: a traversal, of descendants or of ancestors, ends after finitely many
\* steps whatever the cycles and self-loops of the graph: every next() returns,
\* and a generator that is not replaced by a new one and that its holder does
\* not leave suspended for ever ends.  It ends with an empty stack when it
\* ends without an exception, and it raises nothing on a graph with a closed
\* vertex set from a start that is a vertex.
C10_TraversalTerminates ==
    /\ [](trav.status = "done" => trav.stack = <<>>)
    /\ (trav.status = "running") ~> (trav.status # "running")
    /\ (/\ <>[](trav.status # "created")
        /\ []<>(trav.status # "suspended")) => <>[]Ended
    /\ []((/\ pc = "built"
           /\ trav.direction \in {"descendants", "ancestors"}
           /\ trav.start \in DOMAIN parents
           /\ I2) => trav.status \notin {"KeyError", "ValueError", "RuntimeError"})

\* C10 witness: a traversal has ended on a graph where its start lies on a
\* cycle and a vertex it yielded has a self-loop
C10_Witness ==
    /\ pc = "built"
    /\ I1 /\ I2
    /\ trav.status = "done"
    /\ trav.stack = <<>>
    /\ trav.start \in Reachable(Adjacency(parents, children, trav.direction), trav.start)
    /\ \E v \in Range(trav.out) : v \in children[v]

(***************************************************************************)
(* Properties of the reloader.                                             *)
(***************************************************************************)
\* the path lies under the search root directory
UnderRoot(path) == startswith(path, searchpath \o "/")

\* the notification passes the filter: its type is modified or created, its
\* path lies under the search root and is an existing regular file
Accepted(e) ==
    /\ e.op = "event"
    /\ e.type \in {"modified", "created"}
    /\ UnderRoot(e.path)
    /\ isfile(e.path)

\* the vertex of a notification
Filename(e) == relpath(e.path, searchpath)

\* a step that handles a notification
EventStep == event'.op = "event" /\ ncalls' = ncalls + 1

\* the templates among the descendants of f in the graph
TemplateDescendants(f) == {t \in Reachable(children, f) \ {f} : is_template(t)}

\* the templates whose output depends on f: f itself, and those from which f
\* is reached by parents edges
Dependents(f) ==
    {t \in Vertices \cup {f} : is_template(t) /\ (t = f \/ f \in Reachable(parents, t))}

\* C3: for an accepted event on a partial or data file f, render is invoked
\* exactly once for each template among descendants(f) of the updated graph
\* and for nothing else (stated of the events event_handler handles without
\* raising).
C3_RenderDescendantTemplates ==
    (/\ Accepted(event)
     /\ RoleOf(Filename(event)) \in {"partial", "data"}
     /\ error = "none")
    => /\ NoDuplicates(rendered)
       /\ Range(rendered) = TemplateDescendants(Filename(event))

\* C4: after an accepted event for a template f, the templates rendered are
\* those whose output depends on f: f itself and every template that includes
\* or extends f, directly or not (stated of the events event_handler handles
\* without raising).
C4_RenderAllDependents ==
    (/\ Accepted(event)
     /\ RoleOf(Filename(event)) = "template"
     /\ error = "none")
    => Range(rendered) = Dependents(Filename(event))

\* C5: an accepted event on a static path invokes copy exactly once for that
\* path, renders nothing and leaves parents and children unchanged.
C5_StaticCopiedOnce ==
    [][(EventStep /\ Accepted(event'))
         => \A f \in {Filename(event')} :
              RoleOf(f) = "static"
                => /\ copied' = <<f>>
                   /\ rendered' = <<>>
                   /\ parents' = parents
                   /\ children' = children]_vars

\* C5 witness: static/logo.png was modified and copied
C5_Witness ==
    /\ Accepted(event)
    /\ event.path = "/w/t/static/logo.png"
    /\ RoleOf(Filename(event)) = "static"
    /\ copied = <<"static/logo.png">>
    /\ rendered = <<>>

\* C6: a notification whose type is not modified or created, or whose path is
\* not under the search root, or is not an existing regular file, mutates no
\* graph, renders nothing, copies nothing and raises nothing.
C6_FilteredHasNoEffect ==
    [][(EventStep /\ ~Accepted(event'))
         => /\ rendered' = <<>>
            /\ copied' = <<>>
            /\ parents' = parents
            /\ children' = children
            /\ error' = "none"]_vars

\* C6 witness: a file of the sibling directory /w/t2, whose name begins with
\* the search root /w/t, was modified and nothing was done
C6_Witness ==
    /\ event.op = "event"
    /\ event.type = "modified"
    /\ event.path = "/w/t2/page.html"
    /\ startswith(event.path, searchpath)
    /\ ~Accepted(event)
    /\ rendered = <<>>
    /\ copied = <<>>

(***************************************************************************)
(* Properties of DepGraph.update and DepGraph.from_parents.                *)
(***************************************************************************)
\* a step that is a call of DepGraph.update
UpdateStep == event'.op = "update" /\ ncalls' = ncalls + 1

\* the call of this step has the arguments of the call just before it
SameCallAgain ==
    /\ event.op = "update"
    /\ event'.path = event.path
    /\ event'.arg = event.arg

\* C11: update(v, S) with S the current parents.get(v, set()) leaves parents
\* and children unchanged, and update(v, S) called a second time in a row
\* leaves the graph as the first call left it.
C11_IdempotentUpdate ==
    [][(/\ UpdateStep
        /\ \/ event'.arg = Get(parents, event'.path, {})
           \/ SameCallAgain)
         => /\ parents' = parents
            /\ children' = children]_vars

\* the keys of the graph
Keys == DOMAIN parents \cup DOMAIN children

\* C12: update(v, newParents) succeeds when newParents names a vertex that is
\* no key of the graph yet; after the call every vertex of newParents is a key
\* of parents and of children and has v in its children set.
C12_GracefulGrowth ==
    [][(UpdateStep /\ \E d \in event'.arg : d \notin Keys)
         => /\ error' = "none"
            /\ \A d \in event'.arg :
                 /\ d \in DOMAIN parents'
                 /\ d \in DOMAIN children'
                 /\ event'.path \in children'[d]]_vars

\* C14: a call update(v, newParents) that ends in an error leaves parents and
\* children exactly as they were before the call.
C14_UpdateAllOrNothing ==
    [][(UpdateStep /\ error' # "none")
         => /\ parents' = parents
            /\ children' = children]_vars

\* some edge set of the mapping p names a vertex that is no key of p
Dangling(p) == \E v \in DOMAIN p : \E d \in p[v] : d \notin DOMAIN p

\* C17: from_parents(p) raises KeyError and returns no graph when some p[v]
\* holds a vertex that is no key of p; otherwise it returns the graph with
\* parents = p and children[d] = {v : d in p[v]} for every key d, which
\* satisfies I1 and I2.
C17_FromParents ==
    event.op = "from_parents" =>
        IF Dangling(event.arg)
        THEN /\ error = "KeyError"
             /\ pc = "failed"
             /\ parents = EmptyDict
             /\ children = EmptyDict
        ELSE /\ error = "none"
             /\ pc = "built"
             /\ parents = event.arg
             /\ DOMAIN children = DOMAIN event.arg
             /\ \A d \in DOMAIN event.arg :
                  children[d] = {v \in DOMAIN event.arg : d \in event.arg[v]}
             /\ I1
             /\ I2

\* C17 witness: from_parents({page.html: {_base.html}}) raised KeyError and
\* there is no graph
C17_Witness ==
    /\ event.op = "from_parents"
    /\ DOMAIN event.arg = {"page.html"}
    /\ event.arg["page.html"] = {"_base.html"}
    /\ Dangling(event.arg)
    /\ error = "KeyError"
    /\ pc = "failed"
    /\ parents = EmptyDict

\* C18: connected_components called with a direction other than descendants
\* or ancestors raises at the call: the caller gets the error, not a
\* generator, and no vertex is yielded.
C18_BadDirectionRaisesAtCall ==
    (/\ event.op = "connected_components"
     /\ trav.direction \notin {"descendants", "ancestors"})
    => /\ trav.status = "ValueError"
       /\ error = "ValueError"
       /\ trav.out = <<>>

\* C23: no operation removes a vertex: no step of from_parents or update takes
\* a key away from parents or from children.
C23_KeysNeverRemoved ==
    [][/\ DOMAIN parents \subseteq DOMAIN parents'
       /\ DOMAIN children \subseteq DOMAIN children']_vars

\* C23 witness: update(page.html, {}) has taken page.html out of the children
\* of _base.html, which is left with no edge and is still a key of both
C23_Witness ==
    /\ pc = "built"
    /\ event.op = "update"
    /\ event.path = "page.html"
    /\ event.arg = {}
    /\ error = "none"
    /\ DOMAIN parents = {"page.html", "_base.html"}
    /\ DOMAIN children = {"page.html", "_base.html"}
    /\ \A v \in DOMAIN parents : parents[v] = {} /\ children[v] = {}

\* C24: a successful update(v, newParents) changes only parents[v] and the
\* membership of v in children[p] for the p of the symmetric difference of
\* the old and the new parents: parents[w] for every other w, children[p] for
\* every other p and the membership of every other vertex in every children
\* set are unchanged.
C24_UpdateFrame ==
    [][(UpdateStep /\ error' = "none")
         => LET v == event'.path
                old == Get(parents, v, {})
                new == event'.arg
                delta == (old \ new) \cup (new \ old)
            IN  /\ DOMAIN parents' \ {v} = DOMAIN parents \ {v}
                /\ \A w \in DOMAIN parents \ {v} : parents'[w] = parents[w]
                /\ DOMAIN children' = DOMAIN children
                /\ \A p \in DOMAIN children :
                     /\ p \notin delta => children'[p] = children[p]
                     /\ children'[p] \ {v} = children[p] \ {v}]_vars

\* C24 witness: update(page.html, {layout.html}) has moved page.html from the
\* children of _base.html to those of layout.html and left the edge between
\* layout.html and _base.html alone
C24_Witness ==
    /\ pc = "built"
    /\ event.op = "update"
    /\ event.path = "page.html"
    /\ event.arg = {"layout.html"}
    /\ error = "none"
    /\ ncalls = 1
    /\ DOMAIN parents = GraphNames
    /\ parents["page.html"] = {"layout.html"}
    /\ parents["layout.html"] = {"_base.html"}
    /\ children["layout.html"] = {"page.html"}
    /\ children["_base.html"] = {"layout.html"}

(***************************************************************************)
(* Properties of the reloader: failures.                                   *)
(***************************************************************************)
\* C13: an accepted event on a file created after the graph was built (a
\* template, a partial or a data file that is no vertex of the initial graph)
\* ends without a lookup error, and when nothing else fails the file is then a
\* key of parents and of children.
C13_NewFileAccepted ==
    (Accepted(event) /\ Filename(event) \in CreatedFiles)
    => /\ error # "KeyError"
       /\ error = "none" => /\ Filename(event) \in DOMAIN parents
                            /\ Filename(event) \in DOMAIN children

\* the edges of vertex v in the graph (p, c): whether it is a key of p, its
\* parents, and the vertices that have it as a child
EdgesOf(p, c, v) ==
    [key |-> v \in DOMAIN p,
     parents |-> Get(p, v, {}),
     childof |-> {d \in DOMAIN c : v \in c[d]}]

\* C15: when render fails while an event for vertex v is processed, the error
\* reaches the caller of event_handler and parents[v] and the membership of v
\* in every children set are what they were before the event.
C15_RenderFailureRollsBack ==
    [][(EventStep /\ error' = "RenderError")
         => EdgesOf(parents', children', Filename(event'))
              = EdgesOf(parents, children, Filename(event'))]_vars

\* C16: when the reference extractor fails while an event is processed, the
\* error leaves event_handler, nothing is rendered or copied, and the graph
\* and the configuration, which are all the next event is processed against,
\* are what they were before the event.
C16_ExtractorFailureLeavesGraph ==
    [][(EventStep /\ error' = "TemplateError")
         => /\ parents' = parents
            /\ children' = children
            /\ rendered' = <<>>
            /\ copied' = <<>>
            /\ UNCHANGED <<staticpaths, datapaths, extra_deps>>]_vars

\* C16 witness: the extractor failed on page.html, which has parents and is
\* still the child of each of them, and nothing was rendered
C16_Witness ==
    /\ Accepted(event)
    /\ Filename(event) = "page.html"
    /\ error = "TemplateError"
    /\ rendered = <<>>
    /\ copied = <<>>
    /\ "_base.html" \in parents["page.html"]
    /\ "page.html" \in children["_base.html"]

\* C19: the action event_handler takes for an accepted event is the one of the
\* role of the path under the precedence partial > ignored > static > data >
\* template: a partial or data file gets the refresh and the rendering of its
\* template descendants and no copy, an ignored file gets nothing, a static
\* file gets one copy, a template is rendered (stated of the events handled
\* without raising).
C19_HandlerPrecedence ==
    (Accepted(event) /\ error = "none") =>
        \A f \in {Filename(event)} :
            CASE RoleOf(f) \in {"partial", "data"} ->
                    /\ copied = <<>>
                    /\ Range(rendered) = TemplateDescendants(f)
              [] RoleOf(f) = "ignored" -> copied = <<>> /\ rendered = <<>>
              [] RoleOf(f) = "static" -> copied = <<f>> /\ rendered = <<>>
              [] OTHER -> copied = <<>> /\ rendered = <<f>>

\* C20: get_dependencies(path) returns [path] for a template, the descendants
\* of path that are templates, and no partial or data vertex, for a partial or
\* data path, [path] for a static path and nothing otherwise, the role being
\* decided by the precedence partial > ignored > static > data > template
\* (stated of the calls that raise nothing).
C20_GetDependencies ==
    (event.op = "get_dependencies" /\ error = "none") =>
        \A f \in {event.path} :
            CASE RoleOf(f) = "template" -> trav.out = <<f>>
              [] RoleOf(f) \in {"partial", "data"} ->
                    /\ \A t \in Range(trav.out) : is_template(t)
                    /\ Range(trav.out) = TemplateDescendants(f)
              [] RoleOf(f) = "static" -> trav.out = <<f>>
              [] OTHER -> trav.out = <<>>

\* the dependencies declared for f with extra_deps
Declared(f) == IF IsNone(extra_deps) THEN {} ELSE Get(extra_deps.value, f, {})

\* C21: after an accepted event for a template, partial or data vertex v that
\* was processed without an error, parents[v] is the union of what the
\* reference extractor returned for v in that event and the declared extra
\* dependencies of v (stated of the events in which the extractor ran).
C21_ParentsAreCurrentDeps ==
    (/\ Accepted(event)
     /\ error = "none"
     /\ RoleOf(Filename(event)) \in {"template", "partial", "data"}
     /\ ~IsNone(event.arg))
    => \A v \in {Filename(event)} :
         /\ v \in DOMAIN parents
         /\ parents[v] = event.arg.value \cup Declared(v)

\* the vertices make_dep_graph gives the graph: the (maybe partial) templates
\* and the data files on disk
SiteVertices == {f \in InitialFiles : is_partial(f) \/ is_template(f) \/ is_data(f)}

\* the graph is fully built: every file of the site is a key of parents and of
\* children
GraphPresent == SiteVertices \subseteq DOMAIN parents /\ SiteVertices \subseteq DOMAIN children

\* C22: in Site.render(use_reloader=True) make_dep_graph completes before the
\* reloader handles its first notification.  No notification has been handled
\* in a state where the reloader is not watching; when it starts watching the
\* graph is whole (all vertices, the declared dependencies, I1 and I2); and
\* while it watches, the graph is present.
C22_GraphBuiltBeforeEvents ==
    /\ pc # "watching" => ncalls = 0 /\ event.op # "event"
    /\ event.op = "event" => pc = "watching"
    /\ pc = "watching" => GraphPresent
    /\ (pc = "watching" /\ ncalls = 0)
         => /\ DOMAIN parents = SiteVertices
            /\ I1
            /\ I2
            /\ \A v \in SiteVertices : Declared(v) \subseteq parents[v]

\* C22 witness: the first notification is being handled by a reloader whose
\* graph holds every file of the site and the declared dependency of page.html
C22_Witness ==
    /\ pc = "watching"
    /\ ncalls = 1
    /\ Accepted(event)
    /\ Filename(event) = "_base.html"
    /\ GraphPresent
    /\ "data/info.json" \in parents["page.html"]
    /\ rendered = <<"page.html">>

====
